---------------------------- MODULE Spec2Model ----------------------------
(***************************************************************************)
(* Model of drivers/usb/typec/tcpm/qcom/qcom_pmic_tcpm_pdphy.c: the PD PHY *)
(* transmit/receive engine, its reset/enable sequencing and its interrupt  *)
(* dispatcher.                                                             *)
(*                                                                         *)
(* Three execution contexts run concurrently: "port" (direct calls of the  *)
(* upper protocol port: pd_transmit, set_pd_rx, set_roles, init, remove),  *)
(* "irq" (the threaded interrupt handler) and "work" (the workqueue worker *)
(* running reset_work).  Every register access, lock operation, regulator  *)
(* call and upper-port callback is one step.  pc[c] is the list of steps   *)
(* context c still has to run (its continuation); a `goto done` drops the  *)
(* steps up to the target.  trace[c] records what the current top-level    *)
(* operation of c has done so far.                                         *)
(***************************************************************************)
EXTENDS Integers, Sequences, FiniteSets

VARIABLES
    pc,         \* [Ctx -> Seq(STRING)]: steps still to run, <<>> when idle
    lock,       \* pmic_pdphy->lock: "none" or the context holding it
    regs,       \* the register block
    ret,        \* [Ctx -> Int]: the running function's `ret`
    arg,        \* [Ctx -> record]: arguments and locals of the running call
    trace,      \* [Ctx -> Seq(event)]: accesses/callbacks of the current operation
    vdd,        \* use count of the vdd-pdphy regulator
    irqsOn,     \* interrupt lines unmasked (enable_irq done)
    pending,    \* reset_work is queued and has not started running
    removed,    \* the platform driver's remove has been called
    nSigRx,     \* rx-signal interrupts handled so far
    nHardReset, \* tcpm_pd_hard_reset calls made so far
    faults      \* bus and regulator failures still to be injected (-1: any number)

vars == <<pc, lock, regs, ret, arg, trace, vdd, irqsOn, pending, removed,
          nSigRx, nHardReset, faults>>

Ctx == {"port", "irq", "work"}

-----------------------------------------------------------------------------
(* Bounds of the model. *)

\* rx-signal interrupts handled in one behaviour
MaxSigRx == 2
\* largest value the RX size register is made to read
MaxRxSize == 29
\* failures injected in one behaviour where all three contexts run together
MaxFaults == 1

-----------------------------------------------------------------------------
(* Program constants. *)

EIO == 5
EBUSY == 16
EINVAL == 22

PD_REV10 == 0
PD_REV20 == 1
PD_REV30 == 2

TCPC_TX_SOP == 0
TCPC_TX_HARD_RESET == 5
TCPC_TX_CABLE_RESET == 6

TCPC_TX_SUCCESS == 0
TCPC_TX_DISCARDED == 1
TCPC_TX_FAILED == 2

PMIC_PDPHY_SIG_TX_IRQ == 0
PMIC_PDPHY_SIG_RX_IRQ == 1
PMIC_PDPHY_MSG_TX_IRQ == 2
PMIC_PDPHY_MSG_RX_IRQ == 3
PMIC_PDPHY_MSG_TX_FAIL_IRQ == 4
PMIC_PDPHY_MSG_TX_DISCARD_IRQ == 5
PMIC_PDPHY_MSG_RX_DISCARD_IRQ == 6

MSG_CONFIG_PORT_DATA_ROLE == 8
MSG_CONFIG_PORT_POWER_ROLE == 4
MSG_CONFIG_SPEC_REV_MASK == 3
CONTROL_ENABLE == 1
FRAME_FILTER_EN_SOP == 1
FRAME_FILTER_EN_HARD_RESET == 32
TX_CONTROL_SEND_SIGNAL == 2
TX_CONTROL_SEND_MSG == 1

\* sizeof(msg.payload): 7 data objects of 4 bytes
PayloadSize == 28
\* sizeof(msg.header)
HeaderSize == 2
\* PD_MAX_PAYLOAD: data objects in one message
MaxObjs == 7

\* a NULL msg pointer
NoMsg == -1

TX_CONTROL_RETRY_COUNT(n) == (n % 4) * 32
TX_CONTROL_FRAME_TYPE(n) == (n % 8) * 4

\* the fields of a TX control value
RetryField(v) == (v \div 32) % 4
FrameTypeField(v) == (v \div 4) % 8
SendSignalBit(v) == (v \div 2) % 2
SendMsgBit(v) == v % 2

\* a message header with the given object count and revision
Header(cnt, rev) == cnt * 4096 + rev * 64
pd_header_cnt(h) == (h \div 4096) % 8
pd_header_rev(h) == (h \div 64) % 4

-----------------------------------------------------------------------------
(* 8-bit register arithmetic. *)

Bit(x, i) == (x \div (2 ^ i)) % 2

RECURSIVE SumBits(_, _, _)
SumBits(a, b, i) ==
    IF i > 7 THEN 0
    ELSE (IF Bit(a, i) = 1 /\ Bit(b, i) = 1 THEN 2 ^ i ELSE 0) + SumBits(a, b, i + 1)

And8(a, b) == SumBits(a, b, 0)
Not8(a) == 255 - (a % 256)
Or8(a, b) == 255 - And8(Not8(a), Not8(b))

\* (variant) a plain write of val, the other bits lost
UpdateBits_Overwrite(old, mask, val) == val

\* regmap_update_bits: the new register value
UpdateBits(old, mask, val) == Or8(And8(old, Not8(mask)), And8(val, mask))

-----------------------------------------------------------------------------
(* Inputs. *)

TxTypes == {TCPC_TX_SOP, TCPC_TX_HARD_RESET, TCPC_TX_CABLE_RESET}
Revs == {PD_REV10, PD_REV20, PD_REV30}
HdrCnts == {0, 2, MaxObjs}
HdrRevs == {PD_REV20, PD_REV30}
Hdrs == {Header(n, r) : n \in HdrCnts, r \in HdrRevs}
RxSizes == {0, 1, 9, PayloadSize} \cup (PayloadSize + 1 .. MaxRxSize)

\* the arguments used where several contexts run together
NTypes == {TCPC_TX_HARD_RESET}
NHdrs == {Header(2, PD_REV20)}
NRevs == {PD_REV30}
NRxSizes == {0, 9}

NoArg == [op |-> "", type |-> 0, hdr |-> NoMsg, rev |-> 0, on |-> FALSE,
          dr |-> FALSE, pr |-> FALSE, size |-> 0, nread |-> 0]

-----------------------------------------------------------------------------
(* Steps, traces and continuations. *)

Head1(c) == IF pc[c] = <<>> THEN "" ELSE Head(pc[c])
At(c, l) == Head1(c) = l
Idle(c) == pc[c] = <<>>

RECURSIVE From(_, _)
\* the continuation from its first step l on (goto l)
From(s, l) == IF s = <<>> \/ Head(s) = l THEN s ELSE From(Tail(s), l)

Ev(k, reg, val, ok, c) ==
    [k |-> k, reg |-> reg, val |-> val, ok |-> ok, held |-> (lock = c)]

Log(c, e) == trace' = [trace EXCEPT ![c] = Append(@, e)]
Next1(c) == pc' = [pc EXCEPT ![c] = Tail(@)]
Goto(c, l) == pc' = [pc EXCEPT ![c] = From(@, l)]
SetRet(c, v) == ret' = [ret EXCEPT ![c] = v]

\* (variant) a lock that does not wait for its holder
Acquire_Unchecked(c) ==
    /\ lock' = c
    /\ trace' = [trace EXCEPT ![c] = Append(@, [k |-> "lock", reg |-> "", val |-> 0,
                                                ok |-> TRUE, held |-> TRUE])]

\* spin_lock_irqsave
Acquire(c) ==
    /\ lock = "none"
    /\ lock' = c
    /\ trace' = [trace EXCEPT ![c] = Append(@, [k |-> "lock", reg |-> "", val |-> 0,
                                                ok |-> TRUE, held |-> TRUE])]

\* spin_unlock_irqrestore
Release(c) ==
    /\ lock' = "none"
    /\ trace' = [trace EXCEPT ![c] = Append(@, [k |-> "unlock", reg |-> "", val |-> 0,
                                                ok |-> TRUE, held |-> (lock = c)])]

\* The registers whose value a later operation or the hardware state depends
\* on.  The TX registers (control, header, data, size) are command registers
\* the driver only writes (the one readback of TX control discards the value)
\* and the RX size, RX status and RX buffer registers are only ever read:
\* their accesses are recorded in the trace.
RegNames == {"RX_ACK", "FRAME_FILTER", "EN_CONTROL", "MSG_CONFIG"}

\* regmap_write: the register takes the value unless the bus access fails
RegWrite(c, reg, val, ok) ==
    /\ regs' = IF ok /\ reg \in RegNames THEN [regs EXCEPT ![reg] = val] ELSE regs
    /\ Log(c, Ev("w", reg, val, ok, c))

\* regmap_bulk_write of len bytes
RegBulkWrite(c, reg, len, ok) ==
    /\ UNCHANGED regs
    /\ Log(c, Ev("bw", reg, len, ok, c))


\* an access that may fail: a failure uses up one of the failures to inject
Bus(ok) ==
    /\ ok \/ faults # 0
    /\ faults' = IF ok \/ faults < 0 THEN faults ELSE faults - 1

EnvB == <<vdd, irqsOn, pending, removed, nSigRx, nHardReset>>
Env == <<EnvB, faults>>

CallEv(op) == [k |-> "call", reg |-> op, val |-> 0, ok |-> TRUE, held |-> FALSE]

\* a context starts a top-level operation
StartOp(c, a, steps) ==
    /\ pc' = [pc EXCEPT ![c] = steps]
    /\ arg' = [arg EXCEPT ![c] = a]
    /\ trace' = [trace EXCEPT ![c] = <<CallEv(a.op)>>]
    /\ ret' = [ret EXCEPT ![c] = 0]

\* a context is back in its idle loop
EndOp(c) ==
    /\ pc' = [pc EXCEPT ![c] = <<>>]
    /\ arg' = [arg EXCEPT ![c] = NoArg]
    /\ trace' = [trace EXCEPT ![c] = <<>>]
    /\ ret' = [ret EXCEPT ![c] = 0]

-----------------------------------------------------------------------------
(* qcom_pmic_tcpm_pdphy_clear_tx_control_reg *)

\* (variant) a failed write of TX control does not stop the sequence
ClearTx_Write_Regardless(c) ==
    /\ At(c, "clr_w")
    /\ \E ok \in BOOLEAN :
        /\ Bus(ok)
        /\ RegWrite(c, "TX_CONTROL", 0, ok)
        /\ SetRet(c, 0)
    /\ Next1(c)
    /\ UNCHANGED <<lock, arg, EnvB>>

ClearTx_Write(c) ==
    /\ At(c, "clr_w")
    /\ \E ok \in BOOLEAN :
        /\ Bus(ok)
        /\ RegWrite(c, "TX_CONTROL", 0, ok)
        /\ IF ok
           THEN SetRet(c, 0) /\ Next1(c)
           ELSE SetRet(c, -EIO) /\ pc' = [pc EXCEPT ![c] = Tail(Tail(@))]
    /\ UNCHANGED <<lock, arg, EnvB>>

ClearTx_Readback(c) ==
    /\ At(c, "clr_r")
    /\ \E ok \in BOOLEAN :
        /\ Bus(ok)
        /\ Log(c, Ev("r", "TX_CONTROL", 0, ok, c))
        /\ SetRet(c, IF ok THEN 0 ELSE -EIO)
    /\ Next1(c)
    /\ UNCHANGED <<lock, regs, arg, EnvB>>

-----------------------------------------------------------------------------
(* qcom_pmic_tcpm_pdphy_pd_transmit_signal *)

SignalSteps == <<"ts_lock", "clr_w", "clr_r", "ts_ctl", "ts_unlock">>

SignalRetry(negotiated_rev) == IF negotiated_rev = PD_REV30 THEN 2 ELSE 3

SignalControl(type, negotiated_rev) ==
    TX_CONTROL_SEND_SIGNAL
    + TX_CONTROL_RETRY_COUNT(SignalRetry(negotiated_rev))
    + (IF type = TCPC_TX_CABLE_RESET \/ type = TCPC_TX_HARD_RESET
       THEN TX_CONTROL_FRAME_TYPE(1) ELSE 0)

TxSignal_Lock(c) ==
    /\ At(c, "ts_lock")
    /\ Acquire(c)
    /\ Next1(c)
    /\ UNCHANGED <<regs, ret, arg, Env>>

TxSignal_Control(c) ==
    /\ At(c, "ts_ctl")
    /\ \/ /\ ret[c] # 0
          /\ Goto(c, "ts_unlock")
          /\ UNCHANGED <<regs, ret, trace, faults>>
       \/ /\ ret[c] = 0
          /\ \E ok \in BOOLEAN :
              /\ Bus(ok)
              /\ RegWrite(c, "TX_CONTROL", SignalControl(arg[c].type, arg[c].rev), ok)
              /\ SetRet(c, IF ok THEN 0 ELSE -EIO)
          /\ Next1(c)
    /\ UNCHANGED <<lock, arg, EnvB>>

TxSignal_Unlock(c) ==
    /\ At(c, "ts_unlock")
    /\ Release(c)
    /\ Next1(c)
    /\ UNCHANGED <<regs, ret, arg, Env>>

-----------------------------------------------------------------------------
(* qcom_pmic_tcpm_pdphy_pd_transmit_payload *)

PayloadSteps == <<"tp_lock", "tp_ack", "clr_w", "clr_r", "tp_hdr", "tp_data", "tp_size",
                  "clr_w", "clr_r", "tp_ctl", "tp_unlock">>

TxBufLen(hdr) == pd_header_cnt(hdr) * 4
\* (variant) the size register given the length itself, not length - 1
TxSizeLen_FullLength(hdr) == HeaderSize + TxBufLen(hdr)

TxSizeLen(hdr) == HeaderSize + TxBufLen(hdr) - 1

\* (variant) the retry count taken from the negotiated revision
PayloadRetry_ByNegotiatedRev(hdr, negotiated_rev) ==
    IF negotiated_rev = PD_REV30 THEN 2 ELSE 3

PayloadRetry(hdr, negotiated_rev) == IF pd_header_rev(hdr) = PD_REV30 THEN 2 ELSE 3

PayloadControl(type, hdr, negotiated_rev) ==
    TX_CONTROL_FRAME_TYPE(type) + TX_CONTROL_SEND_MSG
    + TX_CONTROL_RETRY_COUNT(PayloadRetry(hdr, negotiated_rev))

\* (variant) a pending RX message is not noticed
RxPending_Never(val) == FALSE

\* the RX-acknowledge value that makes transmit_payload give up
RxPending(val) == val # 0

TxPayload_Lock(c) ==
    /\ At(c, "tp_lock")
    /\ Acquire(c)
    /\ Next1(c)
    /\ UNCHANGED <<regs, ret, arg, Env>>

TxPayload_ReadAck(c) ==
    /\ At(c, "tp_ack")
    /\ \E ok \in BOOLEAN :
        /\ Bus(ok)
        /\ Log(c, Ev("r", "RX_ACK", regs["RX_ACK"], ok, c))
        /\ IF ~ok
           THEN SetRet(c, -EIO) /\ Goto(c, "tp_unlock")
           ELSE IF RxPending(regs["RX_ACK"])
                THEN SetRet(c, -EBUSY) /\ Goto(c, "tp_unlock")
                ELSE SetRet(c, 0) /\ Next1(c)
    /\ UNCHANGED <<lock, regs, arg, EnvB>>

TxPayload_WriteHeader(c) ==
    /\ At(c, "tp_hdr")
    /\ \/ /\ ret[c] # 0
          /\ Goto(c, "tp_unlock")
          /\ UNCHANGED <<regs, ret, trace, faults>>
       \/ /\ ret[c] = 0
          /\ \E ok \in BOOLEAN :
              /\ Bus(ok)
              /\ RegBulkWrite(c, "TX_HDR", HeaderSize, ok)
              /\ IF ~ok
                 THEN SetRet(c, -EIO) /\ Goto(c, "tp_unlock")
                 ELSE /\ SetRet(c, 0)
                      /\ IF TxBufLen(arg[c].hdr) # 0 THEN Next1(c) ELSE Goto(c, "tp_size")
    /\ UNCHANGED <<lock, arg, EnvB>>

TxPayload_WriteData(c) ==
    /\ At(c, "tp_data")
    /\ \E ok \in BOOLEAN :
        /\ Bus(ok)
        /\ RegBulkWrite(c, "TX_DATA", TxBufLen(arg[c].hdr), ok)
        /\ IF ok
           THEN SetRet(c, 0) /\ Next1(c)
           ELSE SetRet(c, -EIO) /\ Goto(c, "tp_unlock")
    /\ UNCHANGED <<lock, arg, EnvB>>

TxPayload_WriteSize(c) ==
    /\ At(c, "tp_size")
    /\ \E ok \in BOOLEAN :
        /\ Bus(ok)
        /\ RegWrite(c, "TX_SIZE", TxSizeLen(arg[c].hdr), ok)
        /\ IF ok
           THEN SetRet(c, 0) /\ Next1(c)
           ELSE SetRet(c, -EIO) /\ Goto(c, "tp_unlock")
    /\ UNCHANGED <<lock, arg, EnvB>>

TxPayload_Control(c) ==
    /\ At(c, "tp_ctl")
    /\ \/ /\ ret[c] # 0
          /\ Goto(c, "tp_unlock")
          /\ UNCHANGED <<regs, ret, trace, faults>>
       \/ /\ ret[c] = 0
          /\ \E ok \in BOOLEAN :
              /\ Bus(ok)
              /\ RegWrite(c, "TX_CONTROL",
                          PayloadControl(arg[c].type, arg[c].hdr, arg[c].rev), ok)
              /\ SetRet(c, IF ok THEN 0 ELSE -EIO)
          /\ Next1(c)
    /\ UNCHANGED <<lock, arg, EnvB>>

TxPayload_Unlock(c) ==
    /\ At(c, "tp_unlock")
    /\ Release(c)
    /\ Next1(c)
    /\ UNCHANGED <<regs, ret, arg, Env>>

-----------------------------------------------------------------------------
(* qcom_pmic_tcpm_pdphy_pd_transmit *)

TransmitSteps(hdr) == IF hdr # NoMsg THEN PayloadSteps ELSE SignalSteps

TransmitArg(type, hdr, rev) ==
    [NoArg EXCEPT !.op = "pd_transmit", !.type = type, !.hdr = hdr, !.rev = rev]

Port_TransmitOver(types, hdrs, revs) ==
    /\ Idle("port") /\ ~removed
    /\ \E type \in types, hdr \in hdrs \cup {NoMsg}, rev \in revs :
        StartOp("port", TransmitArg(type, hdr, rev), TransmitSteps(hdr) \o <<"ret">>)
    /\ UNCHANGED <<lock, regs, Env>>

Port_Transmit == Port_TransmitOver(TxTypes, Hdrs, Revs)

Port_Return ==
    /\ At("port", "ret")
    /\ EndOp("port")
    /\ UNCHANGED <<lock, regs, Env>>

-----------------------------------------------------------------------------
(* Upper protocol port callbacks.  A callback the driver makes runs in the  *)
(* calling context; the port may issue a transmit request from inside it.   *)

CbEv(name, val, c) == Ev("cb", name, val, TRUE, c)

UpperPort_Return(c) ==
    /\ At(c, "in_cb")
    /\ Next1(c)
    /\ UNCHANGED <<lock, regs, ret, arg, trace, Env>>

UpperPort_TransmitOver(c, types, hdrs, revs) ==
    /\ At(c, "in_cb")
    /\ \E type \in types, hdr \in hdrs \cup {NoMsg}, rev \in revs :
        /\ pc' = [pc EXCEPT ![c] = TransmitSteps(hdr) \o Tail(@)]
        /\ arg' = [arg EXCEPT ![c] = TransmitArg(type, hdr, rev)]
        /\ Log(c, CallEv("pd_transmit"))
    /\ UNCHANGED <<lock, regs, ret, Env>>

-----------------------------------------------------------------------------
(* qcom_pmic_tcpm_pdphy_reset_on, qcom_pmic_tcpm_pdphy_reset_off *)

ResetOnSteps == <<"ron_tx", "ron_ff">>
ResetOffSteps == <<"roff_ff">>

\* what is left of reset_on once its TX-control write has failed
ResetOnAfterTxFailure(rest) == Tail(rest)

ResetOn_TxControl(c) ==
    /\ At(c, "ron_tx")
    /\ \E ok \in BOOLEAN :
        /\ Bus(ok)
        /\ RegWrite(c, "TX_CONTROL", 0, ok)
        /\ pc' = [pc EXCEPT ![c] = IF ok THEN Tail(@) ELSE ResetOnAfterTxFailure(Tail(@))]
    /\ UNCHANGED <<lock, ret, arg, EnvB>>

ResetOn_FrameFilter(c) ==
    /\ At(c, "ron_ff")
    /\ \E ok \in BOOLEAN : Bus(ok) /\ RegWrite(c, "FRAME_FILTER", 0, ok)
    /\ Next1(c)
    /\ UNCHANGED <<lock, ret, arg, EnvB>>

FrameFilterOn == FRAME_FILTER_EN_SOP + FRAME_FILTER_EN_HARD_RESET

ResetOff_FrameFilter(c) ==
    /\ At(c, "roff_ff")
    /\ \E ok \in BOOLEAN : Bus(ok) /\ RegWrite(c, "FRAME_FILTER", FrameFilterOn, ok)
    /\ Next1(c)
    /\ UNCHANGED <<lock, ret, arg, EnvB>>

-----------------------------------------------------------------------------
(* qcom_pmic_tcpm_pdphy_sig_reset_work *)

\* (variant) the hard reset is reported before the lock is released
WorkSteps_ReportLocked ==
    <<"wk_lock">> \o ResetOnSteps \o ResetOffSteps \o <<"wk_cb", "wk_unlock">>

WorkSteps == <<"wk_lock">> \o ResetOnSteps \o ResetOffSteps \o <<"wk_unlock", "wk_cb">>

\* the worker takes reset_work off the queue and runs it
Work_Run ==
    /\ pending /\ Idle("work")
    /\ pending' = FALSE
    /\ StartOp("work", [NoArg EXCEPT !.op = "sig_reset_work"], WorkSteps \o <<"wk_ret">>)
    /\ UNCHANGED <<lock, regs, vdd, irqsOn, removed, nSigRx, nHardReset, faults>>

Work_Lock ==
    /\ At("work", "wk_lock")
    /\ Acquire("work")
    /\ Next1("work")
    /\ UNCHANGED <<regs, ret, arg, Env>>

Work_Unlock ==
    /\ At("work", "wk_unlock")
    /\ Release("work")
    /\ Next1("work")
    /\ UNCHANGED <<regs, ret, arg, Env>>

Work_HardReset ==
    /\ At("work", "wk_cb")
    /\ Log("work", CbEv("tcpm_pd_hard_reset", 0, "work"))
    /\ nHardReset' = nHardReset + 1
    /\ pc' = [pc EXCEPT !["work"] = <<"in_cb">> \o Tail(@)]
    /\ UNCHANGED <<lock, regs, ret, arg, vdd, irqsOn, pending, removed, nSigRx, faults>>

Work_Return ==
    /\ At("work", "wk_ret")
    /\ EndOp("work")
    /\ UNCHANGED <<lock, regs, Env>>

-----------------------------------------------------------------------------
(* qcom_pmic_tcpm_pdphy_pd_receive *)

\* (variant) the RX buffer is not handed back to the hardware
ReceiveSteps_NoAck == <<"rx_lock", "rx_size", "rx_status", "rx_buf", "rx_unlock",
                        "rx_deliver">>

\* (variant) the message is delivered before the lock is released
ReceiveSteps_DeliverLocked == <<"rx_lock", "rx_size", "rx_status", "rx_buf", "rx_ack",
                                "rx_deliver", "rx_unlock">>

ReceiveSteps == <<"rx_lock", "rx_size", "rx_status", "rx_buf", "rx_ack", "rx_unlock",
                  "rx_deliver">>

RxSizeInvalid(size) == size < 1 \/ size > PayloadSize

Rx_Lock ==
    /\ At("irq", "rx_lock")
    /\ Acquire("irq")
    /\ Next1("irq")
    /\ UNCHANGED <<regs, ret, arg, Env>>

Rx_ReadSizeOver(sizes) ==
    /\ At("irq", "rx_size")
    /\ \E ok \in BOOLEAN, size \in sizes :
        /\ Bus(ok)
        /\ Log("irq", Ev("r", "RX_SIZE", size, ok, "irq"))
        /\ IF ~ok
           THEN SetRet("irq", -EIO) /\ Goto("irq", "rx_unlock") /\ UNCHANGED arg
           ELSE /\ SetRet("irq", 0)
                /\ IF RxSizeInvalid(size)
                   THEN /\ arg' = [arg EXCEPT !["irq"].size = size]
                        /\ Goto("irq", "rx_unlock")
                   ELSE /\ arg' = [arg EXCEPT !["irq"].size = size + 1]
                        /\ Next1("irq")
    /\ UNCHANGED <<lock, regs, EnvB>>

Rx_ReadSize == Rx_ReadSizeOver(RxSizes)

Rx_ReadStatus ==
    /\ At("irq", "rx_status")
    /\ \E ok \in BOOLEAN :
        /\ Bus(ok)
        /\ Log("irq", Ev("r", "RX_STATUS", 0, ok, "irq"))
        /\ IF ok
           THEN SetRet("irq", 0) /\ Next1("irq")
           ELSE SetRet("irq", -EIO) /\ Goto("irq", "rx_unlock")
    /\ UNCHANGED <<lock, regs, arg, EnvB>>

Rx_ReadBuffer ==
    /\ At("irq", "rx_buf")
    /\ \E ok \in BOOLEAN :
        /\ Bus(ok)
        /\ Log("irq", Ev("br", "RX_BUFFER", arg["irq"].size, ok, "irq"))
        /\ IF ok
           THEN /\ SetRet("irq", 0)
                /\ arg' = [arg EXCEPT !["irq"].nread = arg["irq"].size]
                /\ Next1("irq")
           ELSE /\ SetRet("irq", -EIO)
                /\ UNCHANGED arg
                /\ Goto("irq", "rx_unlock")
    /\ UNCHANGED <<lock, regs, EnvB>>

Rx_Acknowledge ==
    /\ At("irq", "rx_ack")
    /\ \E ok \in BOOLEAN :
        /\ Bus(ok)
        /\ RegWrite("irq", "RX_ACK", 0, ok)
        /\ SetRet("irq", IF ok THEN 0 ELSE -EIO)
    /\ Next1("irq")
    /\ UNCHANGED <<lock, arg, EnvB>>

Rx_Unlock ==
    /\ At("irq", "rx_unlock")
    /\ Release("irq")
    /\ Next1("irq")
    /\ UNCHANGED <<regs, ret, arg, Env>>

\* tcpm_pd_receive gets &msg; nread bytes of it were filled from the RX buffer
\* (0: msg is the uninitialised stack buffer)
Rx_Deliver ==
    /\ At("irq", "rx_deliver")
    /\ \/ /\ ret["irq"] = 0
          /\ Log("irq", CbEv("tcpm_pd_receive", arg["irq"].nread, "irq"))
          /\ pc' = [pc EXCEPT !["irq"] = <<"in_cb">> \o Tail(@)]
       \/ /\ ret["irq"] # 0
          /\ Next1("irq")
          /\ UNCHANGED trace
    /\ UNCHANGED <<lock, regs, ret, arg, Env>>

-----------------------------------------------------------------------------
(* qcom_pmic_tcpm_pdphy_isr *)

IsrArg(virq) == [NoArg EXCEPT !.op = "isr", !.type = virq]

Isr_SigTx ==
    /\ Idle("irq") /\ irqsOn
    /\ StartOp("irq", IsrArg(PMIC_PDPHY_SIG_TX_IRQ), <<"isr_ret">>)
    /\ UNCHANGED <<lock, regs, Env>>

\* schedule_work: queues reset_work unless it is already pending
Isr_SigRxUpTo(max) ==
    /\ Idle("irq") /\ irqsOn
    /\ nSigRx < max
    /\ nSigRx' = nSigRx + 1
    /\ pending' = TRUE
    /\ StartOp("irq", IsrArg(PMIC_PDPHY_SIG_RX_IRQ), <<"isr_ret">>)
    /\ UNCHANGED <<lock, regs, vdd, irqsOn, removed, nHardReset, faults>>

Isr_SigRx == Isr_SigRxUpTo(MaxSigRx)

\* (variant) every transmit interrupt is reported as a success
TransmitComplete_AlwaysSuccess(virq, status) ==
    /\ Idle("irq") /\ irqsOn
    /\ pc' = [pc EXCEPT !["irq"] = <<"in_cb", "isr_ret">>]
    /\ arg' = [arg EXCEPT !["irq"] = IsrArg(virq)]
    /\ ret' = [ret EXCEPT !["irq"] = 0]
    /\ trace' = [trace EXCEPT !["irq"] =
                   <<CallEv("isr"), CbEv("tcpm_pd_transmit_complete", TCPC_TX_SUCCESS, "irq")>>]
    /\ UNCHANGED <<lock, regs, Env>>

TransmitComplete(virq, status) ==
    /\ Idle("irq") /\ irqsOn
    /\ pc' = [pc EXCEPT !["irq"] = <<"in_cb", "isr_ret">>]
    /\ arg' = [arg EXCEPT !["irq"] = IsrArg(virq)]
    /\ ret' = [ret EXCEPT !["irq"] = 0]
    /\ trace' = [trace EXCEPT !["irq"] =
                   <<CallEv("isr"), CbEv("tcpm_pd_transmit_complete", status, "irq")>>]
    /\ UNCHANGED <<lock, regs, Env>>

Isr_MsgTx == TransmitComplete(PMIC_PDPHY_MSG_TX_IRQ, TCPC_TX_SUCCESS)

Isr_MsgRx ==
    /\ Idle("irq") /\ irqsOn
    /\ StartOp("irq", IsrArg(PMIC_PDPHY_MSG_RX_IRQ), ReceiveSteps \o <<"isr_ret">>)
    /\ UNCHANGED <<lock, regs, Env>>

Isr_MsgTxFail == TransmitComplete(PMIC_PDPHY_MSG_TX_FAIL_IRQ, TCPC_TX_FAILED)

Isr_MsgTxDiscard == TransmitComplete(PMIC_PDPHY_MSG_TX_DISCARD_IRQ, TCPC_TX_DISCARDED)

Isr_MsgRxDiscard ==
    /\ Idle("irq") /\ irqsOn
    /\ StartOp("irq", IsrArg(PMIC_PDPHY_MSG_RX_DISCARD_IRQ), <<"isr_ret">>)
    /\ UNCHANGED <<lock, regs, Env>>

Isr_Return ==
    /\ At("irq", "isr_ret")
    /\ EndOp("irq")
    /\ UNCHANGED <<lock, regs, Env>>

-----------------------------------------------------------------------------
(* qcom_pmic_tcpm_pdphy_set_pd_rx *)

SetPdRxSteps == <<"sr_lock", "sr_write", "sr_unlock">>

\* (variant) the flag written as it is
RxAckFor_Plain(on) == IF on THEN 1 ELSE 0

\* !on
RxAckFor(on) == IF on THEN 0 ELSE 1

Port_SetPdRx ==
    /\ Idle("port") /\ ~removed
    /\ \E on \in BOOLEAN :
        StartOp("port", [NoArg EXCEPT !.op = "set_pd_rx", !.on = on],
                SetPdRxSteps \o <<"ret">>)
    /\ UNCHANGED <<lock, regs, Env>>

SetPdRx_Lock ==
    /\ At("port", "sr_lock")
    /\ Acquire("port")
    /\ Next1("port")
    /\ UNCHANGED <<regs, ret, arg, Env>>

SetPdRx_Write ==
    /\ At("port", "sr_write")
    /\ \E ok \in BOOLEAN :
        /\ Bus(ok)
        /\ RegWrite("port", "RX_ACK", RxAckFor(arg["port"].on), ok)
        /\ SetRet("port", IF ok THEN 0 ELSE -EIO)
    /\ Next1("port")
    /\ UNCHANGED <<lock, arg, EnvB>>

SetPdRx_Unlock ==
    /\ At("port", "sr_unlock")
    /\ Release("port")
    /\ Next1("port")
    /\ UNCHANGED <<regs, ret, arg, Env>>

-----------------------------------------------------------------------------
(* qcom_pmic_tcpm_pdphy_set_roles *)

SetRolesSteps == <<"ro_lock", "ro_update", "ro_unlock">>

RolesMask == MSG_CONFIG_PORT_DATA_ROLE + MSG_CONFIG_PORT_POWER_ROLE

\* data_role_host << 3 | power_role_src << 2
RolesVal(dr, pr) == (IF dr THEN 8 ELSE 0) + (IF pr THEN 4 ELSE 0)

\* regmap_update_bits: one read-modify-write under the regmap's own lock
RegUpdate(c, reg, mask, val, ok) ==
    /\ regs' = IF ok THEN [regs EXCEPT ![reg] = UpdateBits(@, mask, val)] ELSE regs
    /\ Log(c, Ev("u", reg, UpdateBits(regs[reg], mask, val), ok, c))

Port_SetRolesOver(drs, prs) ==
    /\ Idle("port") /\ ~removed
    /\ \E dr \in drs, pr \in prs :
        StartOp("port", [NoArg EXCEPT !.op = "set_roles", !.dr = dr, !.pr = pr],
                SetRolesSteps \o <<"ret">>)
    /\ UNCHANGED <<lock, regs, Env>>

Port_SetRoles == Port_SetRolesOver(BOOLEAN, BOOLEAN)

SetRoles_Lock ==
    /\ At("port", "ro_lock")
    /\ Acquire("port")
    /\ Next1("port")
    /\ UNCHANGED <<regs, ret, arg, Env>>

SetRoles_Update ==
    /\ At("port", "ro_update")
    /\ \E ok \in BOOLEAN :
        /\ Bus(ok)
        /\ RegUpdate("port", "MSG_CONFIG", RolesMask,
                     RolesVal(arg["port"].dr, arg["port"].pr), ok)
        /\ SetRet("port", IF ok THEN 0 ELSE -EIO)
    /\ Next1("port")
    /\ UNCHANGED <<lock, arg, EnvB>>

SetRoles_Unlock ==
    /\ At("port", "ro_unlock")
    /\ Release("port")
    /\ Next1("port")
    /\ UNCHANGED <<regs, ret, arg, Env>>

-----------------------------------------------------------------------------
(* qcom_pmic_tcpm_pdphy_disable, qcom_pmic_tcpm_pdphy_enable,               *)
(* pmic_pdphy_reset, qcom_pmic_tcpm_pdphy_init                              *)

DisableSteps == ResetOnSteps \o <<"dis_en", "dis_pwr">>
EnableSteps == <<"en_pwr", "en_cfg", "en_en0", "en_en1">> \o ResetOffSteps \o <<"en_done">>
ResetSteps == DisableSteps \o <<"rst_settle">> \o EnableSteps
InitSteps == ResetSteps \o <<"init_irqs">>

PwrEv(what, ok, c) == Ev("pwr", what, 0, ok, c)

\* regulator_disable: drops one use of the supply; a disable of a supply
\* that has no user is refused
RegulatorDisable(c) ==
    /\ vdd' = IF vdd > 0 THEN vdd - 1 ELSE 0
    /\ Log(c, PwrEv("off", vdd > 0, c))

Port_InitWhen(allowed) ==
    /\ Idle("port") /\ ~removed
    /\ allowed
    /\ StartOp("port", [NoArg EXCEPT !.op = "init"], InitSteps \o <<"ret">>)
    /\ UNCHANGED <<lock, regs, Env>>

Port_Init == Port_InitWhen(TRUE)

Disable_PhyOff ==
    /\ At("port", "dis_en")
    /\ \E ok \in BOOLEAN :
        /\ Bus(ok)
        /\ RegWrite("port", "EN_CONTROL", 0, ok)
        /\ SetRet("port", IF ok THEN 0 ELSE -EIO)
    /\ Next1("port")
    /\ UNCHANGED <<lock, arg, EnvB>>

\* (variant) disable gives up after a failed PHY-enable write
DisablePowersOff_OnlyOnSuccess(r) == r = 0

\* whether disable, having got ret from the PHY-enable write, powers off
DisablePowersOff(r) == TRUE

Disable_PowerOff ==
    /\ At("port", "dis_pwr")
    /\ IF DisablePowersOff(ret["port"])
       THEN RegulatorDisable("port")
       ELSE UNCHANGED <<vdd, trace>>
    /\ Next1("port")
    /\ UNCHANGED <<lock, regs, ret, arg, irqsOn, pending, removed, nSigRx, nHardReset, faults>>

\* pmic_pdphy_reset between disable and enable: a failed disable is returned
Reset_Settle ==
    /\ At("port", "rst_settle")
    /\ \/ /\ ret["port"] # 0
          /\ Goto("port", "init_irqs")
       \/ /\ ret["port"] = 0
          /\ Next1("port")
    /\ UNCHANGED <<lock, regs, ret, arg, trace, Env>>

Enable_PowerOn ==
    /\ At("port", "en_pwr")
    /\ \E ok \in BOOLEAN :
        /\ Bus(ok)
        /\ Log("port", PwrEv("on", ok, "port"))
        /\ IF ok
           THEN vdd' = vdd + 1 /\ SetRet("port", 0) /\ Next1("port")
           ELSE UNCHANGED vdd /\ SetRet("port", -EINVAL) /\ Goto("port", "init_irqs")
    /\ UNCHANGED <<lock, regs, arg, irqsOn, pending, removed, nSigRx, nHardReset>>

Enable_MsgConfig ==
    /\ At("port", "en_cfg")
    /\ \E ok \in BOOLEAN :
        /\ Bus(ok)
        /\ RegUpdate("port", "MSG_CONFIG", MSG_CONFIG_SPEC_REV_MASK, PD_REV20, ok)
        /\ IF ok
           THEN SetRet("port", 0) /\ Next1("port")
           ELSE SetRet("port", -EIO) /\ Goto("port", "en_done")
    /\ UNCHANGED <<lock, arg, EnvB>>

Enable_PhyOff ==
    /\ At("port", "en_en0")
    /\ \E ok \in BOOLEAN :
        /\ Bus(ok)
        /\ RegWrite("port", "EN_CONTROL", 0, ok)
        /\ IF ok
           THEN SetRet("port", 0) /\ Next1("port")
           ELSE SetRet("port", -EIO) /\ Goto("port", "en_done")
    /\ UNCHANGED <<lock, arg, EnvB>>

Enable_PhyOn ==
    /\ At("port", "en_en1")
    /\ \E ok \in BOOLEAN :
        /\ Bus(ok)
        /\ RegWrite("port", "EN_CONTROL", CONTROL_ENABLE, ok)
        /\ IF ok
           THEN SetRet("port", 0) /\ Next1("port")
           ELSE SetRet("port", -EIO) /\ Goto("port", "en_done")
    /\ UNCHANGED <<lock, arg, EnvB>>

Enable_Done ==
    /\ At("port", "en_done")
    /\ \/ /\ ret["port"] # 0
          /\ RegulatorDisable("port")
       \/ /\ ret["port"] = 0
          /\ UNCHANGED <<vdd, trace>>
    /\ Next1("port")
    /\ UNCHANGED <<lock, regs, ret, arg, irqsOn, pending, removed, nSigRx, nHardReset, faults>>

\* (variant) the interrupt lines are unmasked whatever the reset returned
Init_EnableIrqs_Unconditional ==
    /\ At("port", "init_irqs")
    /\ irqsOn' = TRUE
    /\ Next1("port")
    /\ UNCHANGED <<lock, regs, ret, arg, trace, vdd, pending, removed, nSigRx, nHardReset, faults>>

Init_EnableIrqs ==
    /\ At("port", "init_irqs")
    /\ \/ /\ ret["port"] # 0
          /\ UNCHANGED irqsOn
       \/ /\ ret["port"] = 0
          /\ irqsOn' = TRUE
    /\ Next1("port")
    /\ UNCHANGED <<lock, regs, ret, arg, trace, vdd, pending, removed, nSigRx, nHardReset, faults>>

-----------------------------------------------------------------------------
(* qcom_pmic_tcpm_pdphy_remove *)

Port_Remove ==
    /\ Idle("port") /\ ~removed
    /\ removed' = TRUE
    /\ StartOp("port", [NoArg EXCEPT !.op = "remove"], ResetOnSteps \o <<"ret">>)
    /\ UNCHANGED <<lock, regs, vdd, irqsOn, pending, nSigRx, nHardReset, faults>>

-----------------------------------------------------------------------------
(* The driver after probe. *)

\* what the message-config register may hold when the driver is probed
ProbeMsgConfigs == {163}

Probed(f) ==
    /\ faults = f
    /\ pc = [c \in Ctx |-> <<>>]
    /\ lock = "none"
    /\ \E m \in ProbeMsgConfigs :
        regs = [r \in RegNames |-> IF r = "MSG_CONFIG" THEN m ELSE 0]
    /\ ret = [c \in Ctx |-> 0]
    /\ arg = [c \in Ctx |-> NoArg]
    /\ trace = [c \in Ctx |-> <<>>]
    /\ vdd = 0
    /\ irqsOn = FALSE
    /\ pending = FALSE
    /\ removed = FALSE
    /\ nSigRx = 0
    /\ nHardReset = 0

Init == Probed(MaxFaults)

\* any number of failures
InitPort == Probed(-1)

\* the driver once init has succeeded and the port has set its roles
InitRunning ==
    /\ faults = -1
    /\ pc = [c \in Ctx |-> <<>>]
    /\ lock = "none"
    /\ \E m \in ProbeMsgConfigs, on \in BOOLEAN :
        regs = [r \in RegNames |->
                  CASE r = "MSG_CONFIG" -> UpdateBits(m, MSG_CONFIG_SPEC_REV_MASK, PD_REV20)
                    [] r = "EN_CONTROL" -> CONTROL_ENABLE
                    [] r = "FRAME_FILTER" -> FrameFilterOn
                    [] r = "RX_ACK" -> RxAckFor(on)
                    [] OTHER -> 0]
    /\ ret = [c \in Ctx |-> 0]
    /\ arg = [c \in Ctx |-> NoArg]
    /\ trace = [c \in Ctx |-> <<>>]
    /\ vdd = 1
    /\ irqsOn = TRUE
    /\ pending = FALSE
    /\ removed = FALSE
    /\ nSigRx = 0
    /\ nHardReset = 0

\* the steps shared by the functions that context c can be running
Steps(c) ==
    \/ ClearTx_Write(c) \/ ClearTx_Readback(c)
    \/ TxSignal_Lock(c) \/ TxSignal_Control(c) \/ TxSignal_Unlock(c)
    \/ TxPayload_Lock(c) \/ TxPayload_ReadAck(c) \/ TxPayload_WriteHeader(c)
    \/ TxPayload_WriteData(c) \/ TxPayload_WriteSize(c) \/ TxPayload_Control(c)
    \/ TxPayload_Unlock(c)
    \/ ResetOn_TxControl(c) \/ ResetOn_FrameFilter(c) \/ ResetOff_FrameFilter(c)

PortSteps ==
    \/ Port_Return
    \/ SetPdRx_Lock \/ SetPdRx_Write \/ SetPdRx_Unlock
    \/ SetRoles_Lock \/ SetRoles_Update \/ SetRoles_Unlock
    \/ Disable_PhyOff \/ Disable_PowerOff \/ Reset_Settle
    \/ Enable_PowerOn \/ Enable_MsgConfig \/ Enable_PhyOff \/ Enable_PhyOn \/ Enable_Done
    \/ Init_EnableIrqs

IrqSteps ==
    \/ Isr_SigTx \/ Isr_MsgTx \/ Isr_MsgRx \/ Isr_MsgTxFail
    \/ Isr_MsgTxDiscard \/ Isr_MsgRxDiscard \/ Isr_Return
    \/ Rx_Lock \/ Rx_ReadStatus \/ Rx_ReadBuffer \/ Rx_Acknowledge
    \/ Rx_Unlock \/ Rx_Deliver

WorkerSteps ==
    \/ Work_Run \/ Work_Lock \/ Work_Unlock \/ Work_HardReset \/ Work_Return

(* The direct calls alone, over all their arguments, with any failures. *)
NextPort ==
    \/ Port_Transmit \/ Port_SetPdRx \/ Port_SetRoles \/ Port_Init \/ Port_Remove
    \/ PortSteps
    \/ Steps("port")

SpecPort == InitPort /\ [][NextPort]_vars

(* The interrupt handler and the deferred work of a running driver, with   *)
(* any failures; the callbacks return without calling back into the driver. *)
NextIrq ==
    \/ IrqSteps \/ Isr_SigRx \/ Rx_ReadSize
    \/ WorkerSteps
    \/ \E c \in {"irq", "work"} :
        \/ ResetOn_TxControl(c) \/ ResetOn_FrameFilter(c) \/ ResetOff_FrameFilter(c)
        \/ UpperPort_Return(c)

SpecIrq == InitRunning /\ [][NextIrq]_vars

(* All three contexts together, each over a few arguments, with at most    *)
(* MaxFaults failures; a callback may transmit a signal before it returns;  *)
(* init is called until it has succeeded, as the core driver's probe does.  *)
Next ==
    \/ Port_TransmitOver(NTypes, NHdrs, NRevs)
    \/ Port_SetPdRx \/ Port_SetRolesOver({TRUE}, {FALSE}) \/ Port_InitWhen(~irqsOn)
    \/ PortSteps
    \/ IrqSteps \/ Isr_SigRxUpTo(1) \/ Rx_ReadSizeOver(NRxSizes)
    \/ WorkerSteps
    \/ \E c \in Ctx :
        \/ Steps(c)
        \/ UpperPort_Return(c) \/ UpperPort_TransmitOver(c, NTypes, {}, NRevs)

Spec == Init /\ [][Next]_vars

-----------------------------------------------------------------------------
(* Reading traces. *)

IsAccess(e) == e.k \in {"r", "w", "bw", "br", "u"}
IsWrite(e) == e.k \in {"w", "bw", "u"}
IsCb(e, name) == e.k = "cb" /\ e.reg = name
IsRegWrite(e, reg, val) == e.k = "w" /\ e.reg = reg /\ e.val = val

\* the events of context c's innermost call, its "call" event first
OpTrace(c) ==
    LET t == trace[c]
    IN  IF t = <<>> THEN <<>>
        ELSE LET i == CHOOSE i \in DOMAIN t :
                        t[i].k = "call" /\ \A j \in DOMAIN t : j > i => t[j].k # "call"
             IN  SubSeq(t, i, Len(t))

\* the send write of a transmit: TX control written with a send bit
IsSendWrite(e) ==
    e.k = "w" /\ e.reg = "TX_CONTROL" /\ (SendSignalBit(e.val) = 1 \/ SendMsgBit(e.val) = 1)

-----------------------------------------------------------------------------
(* C1: in the receive path, when the RX size register reads a value outside *)
(* [1, 28], tcpm_pd_receive is not called for that event.                   *)
C1_NoDeliveryOnInvalidSize ==
    LET t == trace["irq"]
    IN  (\E i \in DOMAIN t : t[i].k = "r" /\ t[i].reg = "RX_SIZE" /\ t[i].ok
                              /\ (t[i].val < 1 \/ t[i].val > 28))
        => ~ \E j \in DOMAIN t : IsCb(t[j], "tcpm_pd_receive")

-----------------------------------------------------------------------------
(* C2 as stated: the retry-count field of every send write is 2 when the    *)
(* negotiated revision is 3.0 and 3 otherwise, in transmit_signal and in    *)
(* transmit_payload, whatever the revision in the message header.           *)
C2_RetryByNegotiatedRev ==
    \A c \in Ctx :
        arg[c].op = "pd_transmit" =>
            \A i \in DOMAIN OpTrace(c) :
                IsSendWrite(OpTrace(c)[i]) =>
                    RetryField(OpTrace(c)[i].val) = (IF arg[c].rev = 2 THEN 2 ELSE 3)

(* C2 as amended: transmit_signal writes retry count 2 when the negotiated  *)
(* revision is 3.0 and 3 otherwise; transmit_payload writes 2 when the      *)
(* revision field of the message header is 3.0 and 3 otherwise, whatever    *)
(* the negotiated revision.                                                 *)
C2_RetryBySignalRevOrHeaderRev ==
    \A c \in Ctx :
        arg[c].op = "pd_transmit" =>
            \A i \in DOMAIN OpTrace(c) :
                LET e == OpTrace(c)[i]
                IN  IsSendWrite(e) =>
                      /\ (arg[c].hdr = NoMsg) = (SendSignalBit(e.val) = 1)
                      /\ arg[c].hdr = NoMsg =>
                            RetryField(e.val) = (IF arg[c].rev = 2 THEN 2 ELSE 3)
                      /\ arg[c].hdr # NoMsg =>
                            RetryField(e.val) =
                               (IF (arg[c].hdr \div 64) % 4 = 2 THEN 2 ELSE 3)

\* a message with a 2.0 header sent on a 3.0 contract, and one the other way round
C2_Witness ==
    /\ At("port", "ret") /\ ret["port"] = 0
    /\ arg["port"].hdr # NoMsg
    /\ arg["port"].rev = PD_REV30 /\ pd_header_rev(arg["port"].hdr) = PD_REV20
    /\ \E i \in DOMAIN trace["port"] :
          IsSendWrite(trace["port"][i]) /\ RetryField(trace["port"][i].val) = 3

-----------------------------------------------------------------------------
(* C3: no operation reads or writes the register block unless the context   *)
(* doing so holds the lock at that moment.                                  *)
C3_AccessOnlyUnderGuard ==
    \A c \in Ctx : \A i \in DOMAIN trace[c] :
        IsAccess(trace[c][i]) => trace[c][i].held

-----------------------------------------------------------------------------
(* C4: transmit_payload that reads a non-zero RX-acknowledge register makes *)
(* no register write at all, returns -EBUSY and has released the lock when  *)
(* it returns.                                                              *)
BusyRead(e) == e.k = "r" /\ e.reg = "RX_ACK" /\ e.ok /\ e.val # 0

C4_BusyWritesNothing ==
    \A c \in Ctx :
        LET t == OpTrace(c)
        IN  (arg[c].op = "pd_transmit" /\ \E i \in DOMAIN t : BusyRead(t[i])) =>
               /\ \A i \in DOMAIN t : ~IsWrite(t[i])
               /\ Head1(c) \notin {"tp_unlock"} =>
                     /\ ret[c] = -16
                     /\ lock # c
                     /\ t[Len(t)].k = "unlock"

C4_Witness ==
    /\ At("port", "ret")
    /\ arg["port"].op = "pd_transmit"
    /\ \E i \in DOMAIN trace["port"] : BusyRead(trace["port"][i])
    /\ ret["port"] = -EBUSY

-----------------------------------------------------------------------------
Quiescent == ~pending /\ Idle("work") /\ Idle("irq")

(* C5 as stated: n rx-signal interrupts yield n tcpm_pd_hard_reset calls,   *)
(* also when one arrives while the deferred work is still pending: once     *)
(* nothing is pending or running, the two counts agree.                     *)
C5_EveryRxSignalOneHardReset ==
    Quiescent => nHardReset = nSigRx

\* reset_work has been taken off the queue and has not yet reported
WorkOwesReport == From(pc["work"], "wk_cb") # <<>>

(* C5 as amended: every run of the deferred work attempts, holding the      *)
(* lock, TX-control=0, then frame-filter=0 (left out when the TX-control    *)
(* write failed, see C8), then frame-filter=SOP|HARD_RESET, and after       *)
(* releasing the lock makes exactly one tcpm_pd_hard_reset call.  An        *)
(* rx-signal that arrives while the work is pending is merged with it: n    *)
(* rx-signals yield at least one and at most n calls, and every rx-signal   *)
(* is counted before the call that covers it.                               *)
C5_HardResetPerRun ==
    /\ nHardReset + (IF WorkOwesReport THEN 1 ELSE 0) + (IF pending THEN 1 ELSE 0)
          <= nSigRx
    /\ (Quiescent /\ nSigRx > 0) => nHardReset >= 1
    /\ Head1("work") \in {"in_cb", "wk_ret"} =>
          LET t == trace["work"]
              n == Len(t)
          IN  /\ n >= 6
              /\ t[1].k = "call" /\ t[2].k = "lock"
              /\ IsRegWrite(t[3], "TX_CONTROL", 0)
              /\ IF t[3].ok
                 THEN /\ n = 7
                      /\ IsRegWrite(t[4], "FRAME_FILTER", 0)
                      /\ IsRegWrite(t[5], "FRAME_FILTER", 33)
                 ELSE /\ n = 6
                      /\ IsRegWrite(t[4], "FRAME_FILTER", 33)
              /\ \A i \in 3 .. (n - 2) : t[i].held
              /\ t[n - 1].k = "unlock"
              /\ IsCb(t[n], "tcpm_pd_hard_reset") /\ ~t[n].held

\* two rx-signals were merged into one run, which has made its one call
C5_Witness ==
    /\ At("work", "wk_ret")
    /\ ~pending /\ Idle("irq")
    /\ nSigRx = 2 /\ nHardReset = 1

-----------------------------------------------------------------------------
ValidSizeRead(e) == e.k = "r" /\ e.reg = "RX_SIZE" /\ e.ok /\ e.val >= 1 /\ e.val <= 28

\* pd_receive has run to its end
ReceiveOver == arg["irq"].type = PMIC_PDPHY_MSG_RX_IRQ /\ Head1("irq") \in {"in_cb", "isr_ret"}

(* C6: when the RX size register reads a value in [1, 28] and every         *)
(* register access succeeds, receive writes 0 to the RX-acknowledge         *)
(* register exactly once, releases the lock, and then calls tcpm_pd_receive *)
(* exactly once with the size+1 bytes it read from the RX buffer.           *)
C6_ValidSizeAckThenDeliver ==
    LET t == trace["irq"]
    IN  \A s \in DOMAIN t :
          (ReceiveOver /\ ValidSizeRead(t[s]) /\ \A i \in DOMAIN t : t[i].ok) =>
             /\ Cardinality({i \in DOMAIN t : IsRegWrite(t[i], "RX_ACK", 0)}) = 1
             /\ Cardinality({i \in DOMAIN t : IsCb(t[i], "tcpm_pd_receive")}) = 1
             /\ \E b, a, u, d \in DOMAIN t :
                   /\ s < b /\ b < a /\ a < u /\ u < d
                   /\ t[b].k = "br" /\ t[b].reg = "RX_BUFFER" /\ t[b].val = t[s].val + 1
                   /\ IsRegWrite(t[a], "RX_ACK", 0) /\ t[a].held
                   /\ t[u].k = "unlock"
                   /\ IsCb(t[d], "tcpm_pd_receive") /\ ~t[d].held
                   /\ t[d].val = t[s].val + 1

\* the longest message: size 28, 29 bytes delivered
C6_Witness ==
    LET t == trace["irq"]
    IN  /\ ReceiveOver
        /\ \A i \in DOMAIN t : t[i].ok
        /\ \E s \in DOMAIN t : ValidSizeRead(t[s]) /\ t[s].val = 28
        /\ \E d \in DOMAIN t : IsCb(t[d], "tcpm_pd_receive") /\ t[d].val = 29

-----------------------------------------------------------------------------
LockSteps == {"ts_lock", "tp_lock", "rx_lock", "wk_lock", "sr_lock", "ro_lock"}

\* context c made a callback and the upper port called pd_transmit from it
NestedTransmit(c) ==
    \E i, j \in DOMAIN trace[c] :
        i < j /\ trace[c][i].k = "cb" /\ trace[c][j].k = "call"

(* C7: no upper-port callback is made by a context that holds the lock, so  *)
(* a callback that calls pd_transmit does not wait for a lock its own       *)
(* context holds: the transmit takes the lock, runs and releases it.        *)
C7_CallbacksOutsideGuard ==
    \A c \in Ctx :
        /\ \A i \in DOMAIN trace[c] : trace[c][i].k = "cb" => ~trace[c][i].held
        /\ At(c, "in_cb") => lock # c
        /\ Head1(c) \in LockSteps => lock # c
        /\ (NestedTransmit(c) /\ Head1(c) \in {"isr_ret", "wk_ret"}) =>
              LET t == OpTrace(c)
              IN  /\ Cardinality({i \in DOMAIN t : t[i].k = "lock"}) = 1
                  /\ t[Len(t)].k = "unlock"
                  /\ lock # c

\* a transmit issued from inside tcpm_pd_receive has sent its signal
C7_Witness ==
    /\ At("irq", "isr_ret")
    /\ NestedTransmit("irq")
    /\ \E i \in DOMAIN trace["irq"] : IsCb(trace["irq"][i], "tcpm_pd_receive")
    /\ \E i \in DOMAIN OpTrace("irq") : IsSendWrite(OpTrace("irq")[i]) /\ OpTrace("irq")[i].ok

-----------------------------------------------------------------------------
(* C8: reset_on attempts both of its writes: the frame-filter=0 write       *)
(* follows the TX-control=0 write also when that write failed.              *)
C8_ResetOnAttemptsBothWrites ==
    LET t == trace["work"]
    IN  \A i \in DOMAIN t :
          (IsRegWrite(t[i], "TX_CONTROL", 0) /\ i < Len(t)) =>
              IsRegWrite(t[i + 1], "FRAME_FILTER", 0)

-----------------------------------------------------------------------------
(* C9: when enable returns success the supply is on, the PHY-enable         *)
(* register holds the enable bit and the frame-filter register holds        *)
(* SOP|HARD_RESET, every register operation after the power-on having       *)
(* succeeded.                                                               *)
C9_EnableSuccessMeansEnabled ==
    LET t == trace["port"]
    IN  \A p \in DOMAIN t :
          (At("port", "init_irqs") /\ ret["port"] = 0
             /\ t[p].k = "pwr" /\ t[p].reg = "on" /\ t[p].ok) =>
              /\ vdd > 0
              /\ regs["EN_CONTROL"] = 1
              /\ regs["FRAME_FILTER"] = 33
              /\ \A j \in DOMAIN t : j > p => t[j].ok

-----------------------------------------------------------------------------
(* C10: disable calls regulator_disable whether or not the reset_on writes  *)
(* and the PHY-enable=0 write succeeded, and returns the result of the      *)
(* PHY-enable write.                                                        *)
C10_DisableAlwaysPowersOff ==
    At("port", "rst_settle") =>
        LET t == trace["port"]
            n == Len(t)
        IN  /\ n >= 3
            /\ t[n].k = "pwr" /\ t[n].reg = "off"
            /\ IsRegWrite(t[n - 1], "EN_CONTROL", 0)
            /\ ret["port"] = (IF t[n - 1].ok THEN 0 ELSE -5)
            /\ Cardinality({i \in DOMAIN t : t[i].k = "pwr"}) = 1

\* the TX-control write and the PHY-enable write both failed
C10_Witness ==
    LET t == trace["port"]
    IN  /\ At("port", "rst_settle")
        /\ Len(t) = 4
        /\ IsRegWrite(t[2], "TX_CONTROL", 0) /\ ~t[2].ok
        /\ IsRegWrite(t[3], "EN_CONTROL", 0) /\ ~t[3].ok
        /\ t[4].k = "pwr" /\ t[4].reg = "off"
        /\ ret["port"] = -EIO

-----------------------------------------------------------------------------
\* the port's trace shows disable and then enable run to their ends, the
\* PHY-enable write of disable and the power-on of enable having succeeded
ResetReturnedSuccess ==
    LET t == trace["port"]
    IN  /\ ret["port"] = 0
        /\ \E i, j \in DOMAIN t :
              /\ 1 < i /\ i < j
              /\ IsRegWrite(t[i - 1], "EN_CONTROL", 0) /\ t[i - 1].ok
              /\ t[i].k = "pwr" /\ t[i].reg = "off"
              /\ t[j].k = "pwr" /\ t[j].reg = "on" /\ t[j].ok
              /\ \A k \in DOMAIN t : k > j => t[k].k # "pwr"

NoCallbackYet == \A c \in Ctx : \A i \in DOMAIN trace[c] : trace[c][i].k # "cb"

(* C11: the interrupt lines stay masked, and so no interrupt handler, no    *)
(* deferred work and no upper-port callback runs, until init's reset        *)
(* (disable then enable) has returned success; only that step of init       *)
(* unmasks them, and an init whose reset failed returns the failure and     *)
(* leaves the lines as they were.                                           *)
C11_MaskedUntilResetSucceeded ==
    /\ [](~irqsOn => /\ Idle("irq") /\ Idle("work") /\ ~pending
                     /\ nSigRx = 0 /\ nHardReset = 0 /\ NoCallbackYet)
    /\ [][irqsOn' # irqsOn =>
            /\ ~irqsOn /\ irqsOn'
            /\ At("port", "init_irqs")
            /\ ResetReturnedSuccess]_vars
    /\ [][(arg["port"].op = "init" /\ ret["port"] # 0 /\ Head1("port") \in {"init_irqs", "ret"})
            => /\ irqsOn' = irqsOn
               /\ (~Idle("port"))' => ret'["port"] = ret["port"]]_vars

\* init has returned a failure and no line is unmasked
C11_Witness ==
    /\ arg["port"].op = "init" /\ At("port", "ret")
    /\ ret["port"] # 0
    /\ ~irqsOn

-----------------------------------------------------------------------------
\* the handler's trace is its entry and one tcpm_pd_transmit_complete(status)
ReportsOnly(t, status) ==
    /\ Len(t) = 2
    /\ IsCb(t[2], "tcpm_pd_transmit_complete") /\ t[2].val = status /\ ~t[2].held

\* the handler's trace is its entry and one run of pd_receive
ReceivesOnly(t) ==
    /\ Len(t) >= 2 /\ t[2].k = "lock"
    /\ Cardinality({i \in DOMAIN t : t[i].k = "lock"}) = 1
    /\ Cardinality({i \in DOMAIN t : t[i].k = "unlock"}) = 1
    /\ Cardinality({i \in DOMAIN t : t[i].k = "cb"}) <= 1
    /\ \A i \in DOMAIN t : t[i].k = "cb" => IsCb(t[i], "tcpm_pd_receive")

(* C12: the interrupt handler does for each interrupt exactly the one       *)
(* action of its line, once: tx-signal and msg-rx-discarded nothing (no     *)
(* register access, no callback); rx-signal only queues the hard-reset      *)
(* work, touching no register and calling nothing; msg-tx,                  *)
(* msg-tx-fail and msg-tx-discard one tcpm_pd_transmit_complete with        *)
(* SUCCESS, FAILED and DISCARDED; msg-rx one run of pd_receive.             *)
C12_DispatchOneActionEach ==
    /\ [](Head1("irq") \in {"in_cb", "isr_ret"} =>
            LET t == trace["irq"]
                v == arg["irq"].type
            IN  /\ t[1] = CallEv("isr")
                /\ v \in 0 .. 6
                /\ v \in {PMIC_PDPHY_SIG_TX_IRQ, PMIC_PDPHY_SIG_RX_IRQ,
                          PMIC_PDPHY_MSG_RX_DISCARD_IRQ} => Len(t) = 1
                /\ v = PMIC_PDPHY_MSG_TX_IRQ => ReportsOnly(t, 0)
                /\ v = PMIC_PDPHY_MSG_TX_FAIL_IRQ => ReportsOnly(t, 2)
                /\ v = PMIC_PDPHY_MSG_TX_DISCARD_IRQ => ReportsOnly(t, 1)
                /\ v = PMIC_PDPHY_MSG_RX_IRQ => ReceivesOnly(t))
    /\ [][nSigRx' # nSigRx =>
            /\ nSigRx' = nSigRx + 1
            /\ pending'
            /\ arg'["irq"].type = PMIC_PDPHY_SIG_RX_IRQ /\ At("irq", "isr_ret")'
            /\ UNCHANGED <<lock, regs, nHardReset, vdd>>
            /\ trace'["work"] = trace["work"] /\ pc'["work"] = pc["work"]]_vars
    /\ [][pending' /\ ~pending => nSigRx' = nSigRx + 1]_vars

\* the msg-tx-discard handler has made its report
C12_Witness ==
    /\ At("irq", "in_cb")
    /\ arg["irq"].type = PMIC_PDPHY_MSG_TX_DISCARD_IRQ
    /\ ReportsOnly(trace["irq"], TCPC_TX_DISCARDED)

-----------------------------------------------------------------------------
(* C13: in the receive path, when the RX size register reads 0, the write   *)
(* of 0 to the RX-acknowledge register is still made (the buffer goes back  *)
(* to the hardware) and no message is delivered.                            *)
C13_ZeroSizeStillAcknowledged ==
    LET t == trace["irq"]
    IN  (ReceiveOver /\ \E s \in DOMAIN t :
                           t[s].k = "r" /\ t[s].reg = "RX_SIZE" /\ t[s].ok /\ t[s].val = 0)
        => /\ \E a \in DOMAIN t : IsRegWrite(t[a], "RX_ACK", 0)
           /\ ~ \E d \in DOMAIN t : IsCb(t[d], "tcpm_pd_receive")

-----------------------------------------------------------------------------
Proj(e) == <<e.k, e.reg, e.val>>

\* the port's call is a pd_transmit of a message that has returned r
PayloadReturned(r) ==
    /\ At("port", "ret")
    /\ arg["port"].op = "pd_transmit" /\ arg["port"].hdr # -1
    /\ ret["port"] = r

\* what C14 expects between taking and releasing the lock, for a message of
\* n objects and header revision hrev sent as frame type type
ExpectedPayloadAccesses(type, n, hrev) ==
    <<  <<"r", "RX_ACK", 0>>,
        <<"w", "TX_CONTROL", 0>>, <<"r", "TX_CONTROL", 0>>,
        <<"bw", "TX_HDR", 2>> >>
    \o (IF n = 0 THEN <<>> ELSE << <<"bw", "TX_DATA", 4 * n>> >>)
    \o << <<"w", "TX_SIZE", (2 + 4 * n) - 1>>,
          <<"w", "TX_CONTROL", 0>>, <<"r", "TX_CONTROL", 0>>,
          <<"w", "TX_CONTROL", 4 * type + 1 + 32 * (IF hrev = 2 THEN 2 ELSE 3)>> >>

(* C14: a successful transmit_payload of a message with n objects makes,    *)
(* in one hold of the lock, exactly these accesses: read RX-ack;            *)
(* TX-control=0 and its readback; 2 header bytes; 4n payload bytes (none    *)
(* when n = 0); TX-size = (2+4n)-1; TX-control=0 and its readback;          *)
(* TX-control = frame type | send-message | retry.  The send-message bit    *)
(* is written by the last access only.                                      *)
C14_PayloadRegisterTrace ==
    PayloadReturned(0) =>
        LET t == trace["port"]
            h == arg["port"].hdr
            e == ExpectedPayloadAccesses(arg["port"].type, h \div 4096, (h \div 64) % 4)
        IN  /\ Len(t) = Len(e) + 3
            /\ t[2].k = "lock" /\ t[Len(t)].k = "unlock"
            /\ \A i \in DOMAIN e :
                  Proj(t[i + 2]) = e[i] /\ t[i + 2].ok /\ t[i + 2].held
            /\ \A i \in DOMAIN t : IsSendWrite(t[i]) => i = Len(t) - 1

\* a 2-object message at revision 2.0: 8 payload bytes, TX size 9, retry 3
C14_Witness ==
    /\ PayloadReturned(0)
    /\ arg["port"].hdr = Header(2, PD_REV20)
    /\ \E i, j, k \in DOMAIN trace["port"] :
          /\ i < j /\ j < k
          /\ Proj(trace["port"][i]) = <<"bw", "TX_DATA", 8>>
          /\ Proj(trace["port"][j]) = <<"w", "TX_SIZE", 9>>
          /\ IsSendWrite(trace["port"][k]) /\ RetryField(trace["port"][k].val) = 3

-----------------------------------------------------------------------------
\* the port's call is a pd_transmit that is about to return
TransmitReturning == At("port", "ret") /\ arg["port"].op = "pd_transmit"

(* C15: in transmit_signal and transmit_payload a failed register access    *)
(* is the last access of the sequence (so no send bit is written after      *)
(* it); its failure code is what pd_transmit returns; the lock has been     *)
(* released; no upper-port callback is made.                                *)
C15_FailureAbortsTransmit ==
    TransmitReturning =>
        LET t == trace["port"]
        IN  /\ \A i \in DOMAIN t :
                 (IsAccess(t[i]) /\ ~t[i].ok) =>
                    /\ \A j \in DOMAIN t : j > i => ~IsAccess(t[j])
                    /\ ret["port"] = -5
                    /\ i = Len(t) - 1
            /\ (\A i \in DOMAIN t : t[i].ok) => ret["port"] \in {0, -16}
            /\ t[Len(t)].k = "unlock" /\ lock # "port"
            /\ Cardinality({i \in DOMAIN t : t[i].k = "lock"}) = 1
            /\ \A i \in DOMAIN t : t[i].k # "cb"

\* the write of the TX size register failed: nothing sent, -EIO returned
C15_Witness ==
    LET t == trace["port"]
    IN  /\ PayloadReturned(-EIO)
        /\ Len(t) >= 3
        /\ t[Len(t) - 1].k = "w" /\ t[Len(t) - 1].reg = "TX_SIZE" /\ ~t[Len(t) - 1].ok
        /\ \A i \in DOMAIN t : ~IsSendWrite(t[i])

-----------------------------------------------------------------------------
\* context c has taken the lock in its current call and not yet released it
InSequence(c) ==
    LET t == trace[c]
    IN  Cardinality({i \in DOMAIN t : t[i].k = "lock"})
          > Cardinality({i \in DOMAIN t : t[i].k = "unlock"})

\* context c is in one of the calls that take the lock
InGuardedCall(c) ==
    arg[c].op \in {"pd_transmit", "set_pd_rx", "set_roles", "isr", "sig_reset_work"}

\* the step adds a register access to context c's trace
Accesses(c) ==
    /\ Len(trace'[c]) = Len(trace[c]) + 1
    /\ IsAccess(trace'[c][Len(trace'[c])])

(* C16: the guarded register sequences of transmit, set_pd_rx, set_roles,   *)
(* pd_receive and the hard-reset work are atomic with respect to one        *)
(* another: one context at most is inside such a sequence, it holds the     *)
(* lock from its first to its last access, and no other guarded call makes  *)
(* a register access in between.                                            *)
C16_GuardedSequencesAtomic ==
    /\ [](\A c \in Ctx : InSequence(c) => lock = c)
    /\ [](\A c, d \in Ctx : (InSequence(c) /\ InSequence(d)) => c = d)
    /\ [](\A c \in Ctx : \A i \in DOMAIN trace[c] :
             (InGuardedCall(c) /\ IsAccess(trace[c][i])) => trace[c][i].held)
    /\ [][\A c, d \in Ctx :
             (c # d /\ InSequence(c) /\ InGuardedCall(d)) => ~Accesses(d)]_vars

\* the payload transmit has written the TX size and not yet the send bit;
\* the hard-reset work is waiting for the lock
C16_Witness ==
    /\ lock = "port" /\ At("port", "tp_ctl") /\ ret["port"] = 0
    /\ At("work", "wk_lock")
    /\ \E i \in DOMAIN trace["port"] : trace["port"][i].reg = "TX_SIZE"

-----------------------------------------------------------------------------
\* the fields of a message-config value
RevOf(v) == v % 4
PowerRoleOf(v) == (v \div 4) % 2
DataRoleOf(v) == (v \div 8) % 2
RestOf(v) == v \div 16

B2N(b) == IF b THEN 1 ELSE 0

\* the port takes the step at label l
PortStepsAt(l) == At("port", l) /\ pc'["port"] # pc["port"]

LastEv(t) == t[Len(t)]

\* every register but message-config keeps its value
OthersKept == \A r \in RegNames \ {"MSG_CONFIG"} : regs'[r] = regs[r]

-----------------------------------------------------------------------------
(* C18: starting from the probed driver, whose supply was never enabled,    *)
(* regulator_disable is never called more often than regulator_enable has   *)
(* succeeded: the supply is not powered off while this driver has no        *)
(* power-on of its own outstanding.                                         *)
C18_PowerOffOnlyAfterPowerOn ==
    \A i \in DOMAIN trace["port"] :
        LET e == trace["port"][i]
        IN  (e.k = "pwr" /\ e.reg = "off") => e.ok

-----------------------------------------------------------------------------
(* C19: the value transmit_payload writes to the TX size register for a     *)
(* message of 0 to 7 objects, (2+4n)-1, is a size pd_receive accepts, and   *)
(* the size+1 bytes pd_receive then reads fit the 30-byte message.          *)
C19_TxSizeIsValidRxSize ==
    \A i \in DOMAIN trace["port"] :
        LET e == trace["port"][i]
        IN  (e.k = "w" /\ e.reg = "TX_SIZE") =>
               /\ ~RxSizeInvalid(e.val)
               /\ e.val + 1 <= 30

-----------------------------------------------------------------------------
\* context c takes the step at label l
StepsAt(c, l) == At(c, l) /\ pc'[c] # pc[c]

(* C20: set_pd_rx(on) writes !on to the RX-acknowledge register, holding    *)
(* the lock; the register changes only by that write and by pd_receive's    *)
(* write of 0; transmit_payload reads the register and, when the read       *)
(* gives non-zero, returns -EBUSY having written nothing (a failed read is  *)
(* returned as its own failure, also without a write); transmit_signal      *)
(* never reads the register and sends whatever it holds.                    *)
C20_RxAckGatesPayloadOnly ==
    /\ [][StepsAt("port", "sr_write") =>
            LET e == LastEv(trace'["port"])
                v == IF arg["port"].on THEN 0 ELSE 1
            IN  /\ e.k = "w" /\ e.reg = "RX_ACK" /\ e.val = v /\ e.held
                /\ regs'["RX_ACK"] = (IF e.ok THEN v ELSE regs["RX_ACK"])]_vars
    /\ [][regs'["RX_ACK"] # regs["RX_ACK"] =>
            \/ StepsAt("port", "sr_write")
            \/ StepsAt("irq", "rx_ack") /\ regs'["RX_ACK"] = 0]_vars
    /\ [][\A c \in Ctx : StepsAt(c, "tp_ack") =>
            LET e == LastEv(trace'[c])
            IN  /\ e.k = "r" /\ e.reg = "RX_ACK" /\ e.val = regs["RX_ACK"] /\ e.held
                /\ (e.ok /\ regs["RX_ACK"] # 0) => (ret'[c] = -16 /\ At(c, "tp_unlock")')
                /\ ~e.ok => (ret'[c] = -5 /\ At(c, "tp_unlock")')]_vars
    /\ [](\A c \in Ctx : \A i \in DOMAIN trace[c] :
            (trace[c][i].k = "r" /\ trace[c][i].reg = "RX_ACK"
               /\ (~trace[c][i].ok \/ trace[c][i].val # 0))
            => \A j \in DOMAIN trace[c] : j > i => ~IsWrite(trace[c][j]))
    /\ [](\A c \in Ctx : (arg[c].op = "pd_transmit" /\ arg[c].hdr = -1) =>
            \A i \in DOMAIN trace[c] : ~(trace[c][i].k = "r" /\ trace[c][i].reg = "RX_ACK"))
    /\ []((TransmitReturning /\ arg["port"].hdr = -1
             /\ \A i \in DOMAIN trace["port"] : trace["port"][i].ok)
          => /\ ret["port"] = 0
             /\ \E i \in DOMAIN trace["port"] : IsSendWrite(trace["port"][i]))

\* after set_pd_rx(false) a message transmit has come back busy
C20_Witness ==
    /\ PayloadReturned(-EBUSY)
    /\ regs["RX_ACK"] = 1
    /\ \A i \in DOMAIN trace["port"] : ~IsWrite(trace["port"][i])

=============================================================================
